---- MODULE Spec2Model ----
(***************************************************************************)
(* scoped-futures (src/lib.rs): ScopedFutureWrapper, ScopedFutureExt and   *)
(* the boxed-handle conversions, modelled as operations on one handle that *)
(* owns one deferred computation, plus the Db::transaction doc scenario.   *)
(*                                                                         *)
(* A handle is a sequence of layer types, outermost first, ending in "Fut" *)
(* (the concrete computation).  Every layer but "ScopedFutureWrapper" and  *)
(* "Fut" is one heap box.                                                  *)
(***************************************************************************)
EXTENDS Integers, Sequences, FiniteSets, TLC

\* ---------------------------------------------------------------- bounds
MaxPending == 2        \* a computation suspends 0..MaxPending times
MaxDepth == 5          \* layers a handle may stack above the computation
MaxCalls == 2          \* calls of test_transaction on one Db

Wakers == {"w1", "w2"}
Outputs == {"Ok", "Err"}

\* ------------------------------------------------------ poll results
Pending == [tag |-> "Pending", val |-> "none"]
Ready(v) == [tag |-> "Ready", val |-> v]

\* ------------------------------------------------------ layer types
FutTy == "Fut"
WrapperTy == "ScopedFutureWrapper"
ScopedTys == {"ScopedBoxFuture", "ScopedLocalBoxFuture"}
PinDynTys == {"PinBoxDynSend", "PinBoxDyn"}
BoxDynTys == {"BoxDynSend", "BoxDyn"}
BoxTys == ScopedTys \cup PinDynTys \cup BoxDynTys \cup {"BoxFut", "PinBoxFut"}
SendClass == {"ScopedBoxFuture", "PinBoxDynSend", "BoxDynSend"}
LocalClass == {"ScopedLocalBoxFuture", "PinBoxDyn", "BoxDyn"}

VARIABLES
    fut,        \* the wrapped computation: its script and what happened to it
    direct,     \* the same computation, polled directly by the same driver
    handle,     \* the layers that own the computation, outermost first
    results,    \* what each poll of the handle returned
    cxs,        \* the context (waker) the driver passed to each poll of the handle
    phase,      \* "live" | "done" (returned Ready) | "dropped"
    lastOp,     \* the operation that acted last
    tx          \* the Db::transaction scenario

vars == <<fut, direct, handle, results, cxs, phase, lastOp, tx>>

\* ------------------------------------------------- the computation
\* A computation that returns Pending n times, then Ready(v).
NewFut(n, v, send) ==
    [n |-> n, v |-> v, send |-> send,
     polled |-> 0, seen |-> <<>>, ret |-> <<>>, dropped |-> 0]

FutPoll(st, cx) ==
    LET r == IF st.polled < st.n THEN Pending ELSE Ready(st.v)
    IN  [res |-> r,
         st  |-> [st EXCEPT !.polled = @ + 1,
                            !.seen = Append(@, cx),
                            !.ret = Append(@, r)]]

\* ------------------------------------------------- the doc scenario
U8 == 256

\* let mut db = Db { count: 0 }, before any call of test_transaction
NewDb ==
    [pc |-> "idle", refPc |-> "idle", calls |-> 0, is_ok |-> TRUE,
     count |-> 0, count0 |-> 0, refCount |-> 0,
     h |-> <<FutTy>>, st |-> NewFut(0, "Ok", TRUE), refSt |-> NewFut(0, "Ok", TRUE),
     result |-> "none", refResult |-> "none"]

\* if is_ok { Ok(ok) } else { Err(err) }
Outcome(is_ok) == IF is_ok THEN "Ok" ELSE "Err"

\* the async blocks of test_transaction hold no await: one poll runs the body
Callback(is_ok) == NewFut(0, Outcome(is_ok), TRUE)

\* db.count += 1, once for each time the first block's body ran
Increment(count, before, after) == (count + (after.polled - before.polled)) % U8

\* ------------------------------------------------- polling a handle
RECURSIVE poll(_, _, _)

\* a wrapper that answers Pending instead of polling a fresh computation
ScopedFutureWrapper_poll_yield(h, cx, st) ==
    IF st.polled = 0 THEN [res |-> Pending, st |-> st]
    ELSE poll(Tail(h), cx, st)

\* a wrapper that polls again at once when the computation is pending
ScopedFutureWrapper_poll_twice(h, cx, st) ==
    LET p == poll(Tail(h), cx, st)
    IN  IF p.res.tag = "Pending" THEN poll(Tail(h), cx, p.st) ELSE p

\* a wrapper that hands on a waker of its own instead of the caller's
ScopedFutureWrapper_poll_own_waker(h, cx, st) == poll(Tail(h), "w1", st)

\* a wrapper that turns a failure output into a success
ScopedFutureWrapper_poll_map(h, cx, st) ==
    LET p == poll(Tail(h), cx, st)
    IN  IF p.res = Ready("Err") THEN [res |-> Ready("Ok"), st |-> p.st] ELSE p

\* ScopedFutureWrapper::poll: self.future().poll(cx)
ScopedFutureWrapper_poll(h, cx, st) == poll(Tail(h), cx, st)

\* a box that polls its pointee a second time after it completed
PinBox_poll_again(h, cx, st) ==
    LET p == poll(Tail(h), cx, st)
    IN  IF p.res.tag = "Ready" THEN poll(Tail(h), cx, p.st) ELSE p

\* Pin<Box<T>> as Future: polls its pointee
PinBox_poll(h, cx, st) == poll(Tail(h), cx, st)

poll(h, cx, st) ==
    IF Head(h) = FutTy THEN FutPoll(st, cx)
    ELSE IF Head(h) = WrapperTy THEN ScopedFutureWrapper_poll(h, cx, st)
    ELSE PinBox_poll(h, cx, st)

\* ------------------------------------------------- dropping a handle
RECURSIVE drop_glue(_, _)

\* a wrapper that keeps its field in ManuallyDrop
drop_glue_leak(h, st) ==
    IF Head(h) = FutTy THEN [st EXCEPT !.dropped = @ + 1]
    ELSE IF Head(h) = WrapperTy THEN st
    ELSE drop_glue(Tail(h), st)

drop_glue(h, st) ==
    IF Head(h) = FutTy THEN [st EXCEPT !.dropped = @ + 1]
    ELSE drop_glue(Tail(h), st)

\* ------------------------------------------------- static capabilities
\* T: Future
IsFuture(h) == Head(h) \in {FutTy, WrapperTy, "PinBoxFut"} \cup ScopedTys \cup PinDynTys

RECURSIVE IsSend(_, _)
\* T: Send (auto trait of the handle's type)
IsSend(h, st) ==
    IF Head(h) = FutTy THEN st.send
    ELSE IF Head(h) \in SendClass THEN TRUE
    ELSE IF Head(h) \in LocalClass THEN FALSE
    ELSE IsSend(Tail(h), st)

\* a value that was pinned in place and polled cannot be moved again
Movable(h) == Head(h) \in BoxTys \/ results = <<>>

Depth(h) == Cardinality({i \in 1..Len(h) : h[i] \in BoxTys})

Init ==
    /\ \E n \in 0..MaxPending, v \in Outputs, s \in BOOLEAN :
          /\ fut = NewFut(n, v, s)
          /\ direct = NewFut(n, v, s)
          /\ handle \in {<<FutTy>>, <<"BoxFut", FutTy>>, <<"PinBoxFut", FutTy>>,
                         <<"BoxDyn", FutTy>>, <<"PinBoxDyn", FutTy>>}
                        \cup (IF s THEN {<<"BoxDynSend", FutTy>>, <<"PinBoxDynSend", FutTy>>}
                              ELSE {})
    /\ results = <<>>
    /\ cxs = <<>>
    /\ phase = "live"
    /\ lastOp = "init"
    /\ tx = NewDb

Poll ==
    /\ phase = "live"
    /\ IsFuture(handle)
    /\ \E cx \in Wakers :
          LET p == poll(handle, cx, fut)
              d == FutPoll(direct, cx)
          IN  /\ fut' = p.st
              /\ direct' = d.st
              /\ results' = Append(results, p.res)
              /\ cxs' = Append(cxs, cx)
              /\ phase' = IF p.res.tag = "Ready" THEN "done" ELSE "live"
    /\ lastOp' = "poll"
    /\ UNCHANGED <<handle, tx>>

\* ------------------------------------------------- ScopedFutureExt
\* Box::pin(x): one new heap box of type ty around the whole value x
Box_pin(h, ty) == <<ty>> \o h

\* Box::into_pin(x): the same box, now pinned
Box_into_pin(h) ==
    <<CASE Head(h) = "BoxFut" -> "PinBoxFut"
        [] Head(h) = "BoxDynSend" -> "PinBoxDynSend"
        [] Head(h) = "BoxDyn" -> "PinBoxDyn">> \o Tail(h)

\* returning Pin<Box<Fut>> as Pin<Box<dyn ScopedFuture>>: the same box, unsized
Unsize(h, ty) == <<ty>> \o Tail(h)

\* ScopedFutureWrapper { future: self, scope: PhantomData }
scoped(h) == <<WrapperTy>> \o h

\* scope_boxed without its Send bound
scope_boxed_where_no_send(h, st) == IsFuture(h)

\* where Self: Send + Future + 'subject
scope_boxed_where(h, st) == IsFuture(h) /\ IsSend(h, st)

scope_boxed(h) == Box_pin(h, "ScopedBoxFuture")

\* where Self: Future + 'subject
scope_boxed_local_where(h, st) == IsFuture(h)

scope_boxed_local(h) == Box_pin(h, "ScopedLocalBoxFuture")

\* ------------------------------------------------- From conversions
\* Fut: Future<Output = T> + Send + 'subject
From_PinBoxFut_where(h, st) == Head(h) = "PinBoxFut" /\ IsSend(Tail(h), st)

\* a conversion that boxes the concrete box once more
From_PinBoxFut_rebox(h) == Box_pin(h, "ScopedBoxFuture")

From_PinBoxFut_for_ScopedBoxFuture(h) == Unsize(h, "ScopedBoxFuture")

From_PinBoxFut_for_ScopedLocalBoxFuture(h) == Unsize(h, "ScopedLocalBoxFuture")

\* Fut: Future<Output = T> + Send + 'subject
From_BoxFut_where(h, st) == Head(h) = "BoxFut" /\ IsSend(Tail(h), st)

From_BoxFut_for_ScopedBoxFuture(h) == Unsize(Box_into_pin(h), "ScopedBoxFuture")

From_BoxFut_for_ScopedLocalBoxFuture(h) == Unsize(Box_into_pin(h), "ScopedLocalBoxFuture")

From_PinBoxDynSend_for_ScopedBoxFuture(h) == Box_pin(h, "ScopedBoxFuture")

From_PinBoxDyn_for_ScopedLocalBoxFuture(h) == Box_pin(h, "ScopedLocalBoxFuture")

From_BoxDynSend_for_ScopedBoxFuture(h) ==
    From_PinBoxDynSend_for_ScopedBoxFuture(Box_into_pin(h))

From_BoxDyn_for_ScopedLocalBoxFuture(h) ==
    From_PinBoxDyn_for_ScopedLocalBoxFuture(Box_into_pin(h))

From_ScopedBoxFuture_for_PinBoxDynSend(h) == Box_pin(h, "PinBoxDynSend")

From_ScopedLocalBoxFuture_for_PinBoxDyn(h) == Box_pin(h, "PinBoxDyn")

ConcreteConvOps == {"from_pinboxfut_send", "from_pinboxfut_local",
                    "from_boxfut_send", "from_boxfut_local"}
DynConvOps == {"from_pinboxdynsend", "from_pinboxdyn", "from_boxdynsend",
               "from_boxdyn", "into_pinboxdynsend", "into_pinboxdyn"}
ConvOps == ConcreteConvOps \cup DynConvOps

\* An operation that consumes the handle by value and returns another one.
Move(op, h) ==
    /\ phase = "live"
    /\ Movable(handle)
    /\ Len(h) - 1 <= MaxDepth
    /\ handle' = h
    /\ lastOp' = op
    /\ UNCHANGED <<fut, direct, results, cxs, phase, tx>>

Scoped ==
    /\ IsFuture(handle)
    /\ Move("scoped", scoped(handle))

ScopeBoxed ==
    /\ scope_boxed_where(handle, fut)
    /\ Move("scope_boxed", scope_boxed(handle))

ScopeBoxedLocal ==
    /\ scope_boxed_local_where(handle, fut)
    /\ Move("scope_boxed_local", scope_boxed_local(handle))

FromPinBoxFutSend ==
    /\ From_PinBoxFut_where(handle, fut)
    /\ Move("from_pinboxfut_send", From_PinBoxFut_for_ScopedBoxFuture(handle))

FromPinBoxFutLocal ==
    /\ Head(handle) = "PinBoxFut"
    /\ Move("from_pinboxfut_local", From_PinBoxFut_for_ScopedLocalBoxFuture(handle))

FromBoxFutSend ==
    /\ From_BoxFut_where(handle, fut)
    /\ Move("from_boxfut_send", From_BoxFut_for_ScopedBoxFuture(handle))

FromBoxFutLocal ==
    /\ Head(handle) = "BoxFut"
    /\ Move("from_boxfut_local", From_BoxFut_for_ScopedLocalBoxFuture(handle))

FromPinBoxDynSend ==
    /\ Head(handle) = "PinBoxDynSend"
    /\ Move("from_pinboxdynsend", From_PinBoxDynSend_for_ScopedBoxFuture(handle))

FromPinBoxDyn ==
    /\ Head(handle) = "PinBoxDyn"
    /\ Move("from_pinboxdyn", From_PinBoxDyn_for_ScopedLocalBoxFuture(handle))

FromBoxDynSend ==
    /\ Head(handle) = "BoxDynSend"
    /\ Move("from_boxdynsend", From_BoxDynSend_for_ScopedBoxFuture(handle))

FromBoxDyn ==
    /\ Head(handle) = "BoxDyn"
    /\ Move("from_boxdyn", From_BoxDyn_for_ScopedLocalBoxFuture(handle))

IntoPinBoxDynSend ==
    /\ Head(handle) = "ScopedBoxFuture"
    /\ Move("into_pinboxdynsend", From_ScopedBoxFuture_for_PinBoxDynSend(handle))

IntoPinBoxDyn ==
    /\ Head(handle) = "ScopedLocalBoxFuture"
    /\ Move("into_pinboxdyn", From_ScopedLocalBoxFuture_for_PinBoxDyn(handle))

\* The owner lets go of the handle, completed or not.
Drop ==
    /\ phase \in {"live", "done"}
    /\ fut' = drop_glue(handle, fut)
    /\ phase' = "dropped"
    /\ lastOp' = "drop"
    /\ UNCHANGED <<direct, handle, results, cxs, tx>>

Next ==
    \/ Poll
    \/ Drop
    \/ Scoped
    \/ ScopeBoxed
    \/ ScopeBoxedLocal
    \/ FromPinBoxFutSend
    \/ FromPinBoxFutLocal
    \/ FromBoxFutSend
    \/ FromBoxFutLocal
    \/ FromPinBoxDynSend
    \/ FromPinBoxDyn
    \/ FromBoxDynSend
    \/ FromBoxDyn
    \/ IntoPinBoxDynSend
    \/ IntoPinBoxDyn

Spec == Init /\ [][Next]_vars

\* ------------------------------------------------- Db::transaction
\* callback(self).await: one poll of the boxed future the callback returned
transaction(h, cx, st) == poll(h, cx, st)

TxMain == <<fut, direct, handle, results, cxs, phase, lastOp>>

\* test_transaction(&mut db, &ok, &err, is_ok)
TxCall ==
    /\ tx.pc = "idle"
    /\ tx.calls < MaxCalls
    /\ \E b \in BOOLEAN :
          tx' = [tx EXCEPT !.pc = "callback1", !.refPc = "block1",
                           !.calls = @ + 1, !.is_ok = b,
                           !.count0 = tx.count, !.result = "none",
                           !.refResult = "none", !.refSt = Callback(b)]
    /\ UNCHANGED TxMain

\* |db| async move { db.count += 1; ... }.scope_boxed()
TxCallback1 ==
    /\ tx.pc = "callback1"
    /\ scope_boxed_where(<<FutTy>>, Callback(tx.is_ok))
    /\ tx' = [tx EXCEPT !.pc = "await1", !.h = scope_boxed(<<FutTy>>),
                        !.st = Callback(tx.is_ok)]
    /\ UNCHANGED TxMain

\* db.transaction(..).await?
TxAwait1 ==
    /\ tx.pc = "await1"
    /\ \E cx \in Wakers :
          LET p == transaction(tx.h, cx, tx.st)
              done == p.res.tag = "Ready"
          IN  tx' = [tx EXCEPT
                        !.st = p.st,
                        !.count = Increment(@, tx.st, p.st),
                        !.result = IF done THEN p.res.val ELSE @,
                        !.pc = IF ~done THEN "await1"
                               ELSE IF p.res.val = "Ok" THEN "callback2"
                               ELSE "return"]
    /\ UNCHANGED TxMain

\* |_| async { ... }.scope_boxed()
TxCallback2 ==
    /\ tx.pc = "callback2"
    /\ scope_boxed_where(<<FutTy>>, Callback(tx.is_ok))
    /\ tx' = [tx EXCEPT !.pc = "await2", !.h = scope_boxed(<<FutTy>>),
                        !.st = Callback(tx.is_ok)]
    /\ UNCHANGED TxMain

\* db.transaction(..).await, the value test_transaction returns
TxAwait2 ==
    /\ tx.pc = "await2"
    /\ \E cx \in Wakers :
          LET p == transaction(tx.h, cx, tx.st)
              done == p.res.tag = "Ready"
          IN  tx' = [tx EXCEPT
                        !.st = p.st,
                        !.result = IF done THEN p.res.val ELSE @,
                        !.pc = IF done THEN "return" ELSE "await2"]
    /\ UNCHANGED TxMain

\* the first block, polled as it is (no scope_boxed, no transaction) on a twin Db
RefBlock1 ==
    /\ tx.refPc = "block1"
    /\ \E cx \in Wakers :
          LET d == FutPoll(tx.refSt, cx)
              done == d.res.tag = "Ready"
          IN  tx' = [tx EXCEPT
                        !.refSt = IF done /\ d.res.val = "Ok"
                                  THEN Callback(tx.is_ok) ELSE d.st,
                        !.refCount = Increment(@, tx.refSt, d.st),
                        !.refResult = IF done THEN d.res.val ELSE @,
                        !.refPc = IF ~done THEN "block1"
                                  ELSE IF d.res.val = "Ok" THEN "block2"
                                  ELSE "return"]
    /\ UNCHANGED TxMain

\* the second block, polled as it is
RefBlock2 ==
    /\ tx.refPc = "block2"
    /\ \E cx \in Wakers :
          LET d == FutPoll(tx.refSt, cx)
              done == d.res.tag = "Ready"
          IN  tx' = [tx EXCEPT
                        !.refSt = d.st,
                        !.refResult = IF done THEN d.res.val ELSE @,
                        !.refPc = IF done THEN "return" ELSE "block2"]
    /\ UNCHANGED TxMain

\* test_transaction has returned on both Dbs; they can be used again
TxReturn ==
    /\ tx.pc = "return"
    /\ tx.refPc = "return"
    /\ tx' = [tx EXCEPT !.pc = "idle", !.refPc = "idle"]
    /\ UNCHANGED TxMain

TxInit ==
    /\ fut = NewFut(0, "Ok", TRUE)
    /\ direct = NewFut(0, "Ok", TRUE)
    /\ handle = <<FutTy>>
    /\ results = <<>>
    /\ cxs = <<>>
    /\ phase = "live"
    /\ lastOp = "init"
    /\ tx = NewDb

TxNext ==
    \/ TxCall
    \/ TxCallback1
    \/ TxAwait1
    \/ TxCallback2
    \/ TxAwait2
    \/ RefBlock1
    \/ RefBlock2
    \/ TxReturn

TxSpec == TxInit /\ [][TxNext]_vars

\* ================================================= properties
HasLayer(h, ty) == \E i \in 1..Len(h) : h[i] = ty

NumPending(rs) == Cardinality({k \in 1..Len(rs) : rs[k] = Pending})

\* C1: polling a handle built with scoped() returns, poll for poll, the same
\* Pending/Ready(v) results in the same order as polling the computation
\* directly with the same poll calls.
C1_SameResults == HasLayer(handle, WrapperTy) => results = direct.ret

C1_Witness ==
    /\ HasLayer(handle, WrapperTy)
    /\ lastOp = "poll"
    /\ phase = "done"
    /\ Len(results) = 3
    /\ results[1] = Pending
    /\ results[3] = Ready(fut.v)

\* C3: test_transaction, whose callbacks are boxed with scope_boxed() and
\* awaited by Db::transaction, returns the same value and changes the counter
\* by the same amount as the same blocks polled unboxed; with is_ok it returns
\* Ok(ok) and leaves db.count one higher than at the call.
C3_Transaction ==
    (tx.pc = "return" /\ tx.refPc = "return") =>
        /\ tx.result = tx.refResult
        /\ tx.count = tx.refCount
        /\ tx.result = Outcome(tx.is_ok)
        /\ tx.is_ok => (tx.count = tx.count0 + 1 /\ tx.result = "Ok")

C3_Witness ==
    /\ tx.pc = "return"
    /\ tx.refPc = "return"
    /\ tx.is_ok
    /\ tx.result = "Ok"
    /\ tx.count = 1
    /\ tx.st.polled = 1

\* C4: the handle suspends exactly as often as the computation: every poll of
\* the handle polls the computation exactly once, the handle returns Pending
\* n times and only then Ready.
C4_SameSuspensions ==
    /\ fut.polled = Len(results)
    /\ phase = "live" => (NumPending(results) = Len(results) /\ Len(results) <= fut.n)
    /\ phase = "done" => (NumPending(results) = fut.n /\ Len(results) = fut.n + 1)

C4_Witness ==
    /\ phase = "done"
    /\ fut.n = 2
    /\ NumPending(results) = 2
    /\ HasLayer(handle, WrapperTy)
    /\ HasLayer(handle, "ScopedBoxFuture")

\* C5: on every poll the computation is handed exactly the context that was
\* passed to that poll of the handle, also when the driver changes it.
C5_SameContext == fut.seen = cxs

C5_Witness ==
    /\ HasLayer(handle, WrapperTy)
    /\ Len(cxs) = 2
    /\ cxs[1] = "w1"
    /\ cxs[2] = "w2"
    /\ fut.seen = <<"w1", "w2">>

\* C6: a Ready(v) returned by the handle is the output the computation returned
\* on that same poll, success or failure, unchanged; the handle never returns
\* Ready for a poll on which the computation returned Pending.
C6_OutputPassesThrough ==
    \A k \in 1..Len(results) :
        results[k].tag = "Ready" => (k <= Len(fut.ret) /\ fut.ret[k] = results[k])

C6_Witness ==
    /\ HasLayer(handle, WrapperTy)
    /\ phase = "done"
    /\ Len(results) = 2
    /\ results[2] = Ready("Err")
    /\ fut.ret[2] = Ready("Err")

\* C7: dropping the handle, after any number of polls and also before the
\* computation completed, drops the computation exactly once; until then it
\* is not dropped, and it is polled only by the polls of the handle.
C7_DropsOnce ==
    /\ phase = "dropped" => fut.dropped = 1
    /\ phase # "dropped" => fut.dropped = 0
    /\ fut.polled = Len(results)

C7_Witness ==
    /\ phase = "dropped"
    /\ fut.dropped = 1
    /\ Len(results) = 1
    /\ results[1] = Pending
    /\ HasLayer(handle, WrapperTy)
    /\ Depth(handle) >= 2

\* C8: a handle made by scope_boxed() (scope_boxed_local()), converted to the
\* unbounded pinned box and back, polls like the handle it was made from: the
\* same result and the same effect on the computation for every context, also
\* for a handle that went through round trips before.
RoundTrip(h) ==
    IF Head(h) = "ScopedBoxFuture"
    THEN From_PinBoxDynSend_for_ScopedBoxFuture(From_ScopedBoxFuture_for_PinBoxDynSend(h))
    ELSE From_PinBoxDyn_for_ScopedLocalBoxFuture(From_ScopedLocalBoxFuture_for_PinBoxDyn(h))

RoundTripped(h) ==
    /\ Len(h) > 3
    /\ h[1] \in ScopedTys
    /\ h[2] \in PinDynTys
    /\ h[3] = h[1]

C8_RoundTrip ==
    /\ (Head(handle) \in ScopedTys /\ phase = "live") =>
          \A cx \in Wakers :
              poll(RoundTrip(handle), cx, fut) = poll(handle, cx, fut)
    /\ RoundTripped(handle) => results = direct.ret

C8_Witness ==
    /\ RoundTripped(handle)
    /\ RoundTripped(Tail(Tail(handle)))
    /\ lastOp = "poll"
    /\ phase = "done"
    /\ Len(results) = 2

\* C9 as stated: no conversion adds a box or a layer of indirection.
C9_NoNewLayer ==
    [][lastOp' \in ConvOps => Depth(handle') = Depth(handle)]_vars

\* C9, amended: a conversion from a concrete Box<Fut> or Pin<Box<Fut>> keeps
\* the one box; a conversion between a bounded and an unbounded dyn handle
\* puts the whole handle into exactly one new box; neither touches the
\* computation.
C9_ConversionLayers ==
    [][/\ lastOp' \in ConcreteConvOps =>
            /\ Depth(handle') = Depth(handle)
            /\ Tail(handle') = Tail(handle)
            /\ fut' = fut
       /\ lastOp' \in DynConvOps =>
            /\ Depth(handle') = Depth(handle) + 1
            /\ Tail(Tail(handle')) = Tail(handle)
            /\ fut' = fut]_vars

C9_Witness ==
    /\ lastOp = "from_pinboxdynsend"
    /\ handle = <<"ScopedBoxFuture", "PinBoxDynSend", "ScopedBoxFuture", "Fut">>

\* C10: a layer of the transferable class holds only transferable content:
\* a Send computation and no context-local layer beneath it; and a conversion
\* between dyn handles keeps the class of the handle.
ClassOf(ty) == IF ty \in SendClass THEN "send" ELSE IF ty \in LocalClass THEN "local" ELSE "concrete"

HoldsSend(h, i) ==
    /\ fut.send
    /\ \A j \in (i + 1)..Len(h) : h[j] \notin LocalClass

C10_Inv == \A i \in 1..Len(handle) : handle[i] \in SendClass => HoldsSend(handle, i)

C10_Transferability ==
    /\ []C10_Inv
    /\ [][lastOp' \in DynConvOps => ClassOf(Head(handle')) = ClassOf(Head(handle))]_vars

C10_Witness ==
    /\ lastOp \in ConvOps
    /\ Head(handle) = "ScopedBoxFuture"
    /\ HasLayer(handle, WrapperTy)
    /\ Depth(handle) >= 3
====
